---- MODULE Spec2Model ----
(***************************************************************************)
(* The customer-support summary pipeline of TechNova.py:                   *)
(*   get_db_connection, get_customer, get_support_tickets,                 *)
(*   format_support_summary and the tool generate_support_summary.         *)
(*                                                                         *)
(* Text is modelled by TLA+ strings, built with \o exactly as the code     *)
(* builds it with f-strings and +=.  Python's None and SQL NULL are the    *)
(* empty tuple, a present value v is the one-element tuple <<v>>.          *)
(***************************************************************************)
EXTENDS Integers, Sequences, FiniteSets, TLC

\* ------------------------------------------------------------- bounds
\* The invocations that may be in flight at once.
Procs == {"p1", "p2"}
\* Rows of the support_tickets table.
MaxTickets == 2
\* Half-day steps the wall clock may take during a run.
MaxTicks == 2
\* The day the run starts on, counted from 2025-01-01 (day 0).
StartDay == 400

\* ------------------------------------------------------ None and text
None == <<>>

Some(v) == <<v>>

\* An f-string field: str(None) is "None", a text prints as itself.
Str(x) == IF x = None THEN "None" ELSE x[1]

StartsWith(s, p) == Len(s) >= Len(p) /\ SubSeq(s, 1, Len(p)) = p

\* The characters of the stored dates, in their byte order.
DateChars == " -0123456789:"

CharCode(c) == CHOOSE i \in 1..Len(DateChars) : SubSeq(DateChars, i, i) = c

\* SQLite's comparison of two TEXT values (BINARY collation: memcmp over the
\* common length, then the longer one is the greater): a >= b, from byte i on.
RECURSIVE TextGEFrom(_, _, _)
TextGEFrom(a, b, i) ==
    IF i > Len(b) THEN TRUE
    ELSE IF i > Len(a) THEN FALSE
    ELSE IF SubSeq(a, i, i) # SubSeq(b, i, i)
         THEN CharCode(SubSeq(a, i, i)) > CharCode(SubSeq(b, i, i))
         ELSE TextGEFrom(a, b, i + 1)

TextGE(a, b) == TextGEFrom(a, b, 1)

\* ------------------------------------------------------------- dates
\* A datetime is [day, hour]: the day counted from 2025-01-01, the hour of
\* that day.  2025, 2026 and 2027 have 365 days each.
MonthLens == <<31, 28, 31, 30, 31, 30, 31, 31, 30, 31, 30, 31>>

Pad2(n) == IF n < 10 THEN "0" \o ToString(n) ELSE ToString(n)

\* <<month, day of month>> of day d (0-based) of a year, from month m on.
RECURSIVE MonthDay(_, _)
MonthDay(m, d) ==
    IF d < MonthLens[m] THEN <<m, d + 1>> ELSE MonthDay(m + 1, d - MonthLens[m])

\* datetime.strftime("%Y-%m-%d"): the calendar date, the time of day dropped.
Strftime(dt) ==
    LET md == MonthDay(1, dt.day % 365)
    IN  ToString(2025 + (dt.day \div 365)) \o "-" \o Pad2(md[1]) \o "-" \o Pad2(md[2])

\* datetime - timedelta(days=n): the time of day is kept.
MinusDays(dt, n) == [dt EXCEPT !.day = @ - n]

\* ------------------------------------------------------------- store
\* The customer identifiers callers ask for; "ZZZ999" is no customer row.
CustomerIds == {"ACM001", "GLX002", "ZZZ999"}

\* Timeframe tokens: the two the code recognises, the documented default
\* and an unrecognised one.
Timeframes == {"7days", "30days", "90days", "bogus"}

\* Table customers, by id.
CustomersTable ==
    [c \in {"ACM001", "GLX002"} |->
        IF c = "ACM001"
        THEN [id |-> c, name |-> "Acme Corp", industry |-> "Manufacturing", size |-> "Large"]
        ELSE [id |-> c, name |-> "Galaxy Inc", industry |-> "Retail", size |-> "Small"]]

\* Table subscriptions, by customer_id: "GLX002" has no subscription row.
SubscriptionsTable ==
    [c \in {"ACM001"} |->
        [plan |-> "Enterprise", seats |-> "50", renewal_date |-> "2026-12-31",
         status |-> "Active", monthly_value |-> "5000"]]

\* Table contacts, by id.
ContactsTable == [k \in {"1"} |-> [name |-> "Ann Lee", title |-> "CTO"]]

\* A row of table support_tickets, without its id.
Ticket(cid, created, status, priority, resolved, contact) ==
    [customer_id |-> cid, created_date |-> created, status |-> status,
     priority |-> priority, resolved_date |-> resolved, contact_id |-> contact]

\* The date, as stored, of the day n days before the run starts.
DaysAgo(n) == Strftime([day |-> StartDay - n, hour |-> 0])

\* The rows a support_tickets table may hold: of "ACM001" an open critical
\* ticket of yesterday morning, one of seven days ago whose status is "open"
\* in lower case, a resolved one of the afternoon of that day with no matching
\* contact, and a resolved one of forty days ago; of "GLX002" one of yesterday.
TicketRows ==
    { Ticket("ACM001", DaysAgo(1) \o " 09:30:00", "Open", "Critical", None, Some("1")),
      Ticket("ACM001", DaysAgo(7), "open", "High", None, Some("1")),
      Ticket("ACM001", DaysAgo(7) \o " 16:00:00", "Resolved", "Low",
             Some(DaysAgo(6)), Some("7")),
      Ticket("ACM001", DaysAgo(40), "Resolved", "Low", Some(DaysAgo(38)), None),
      Ticket("GLX002", DaysAgo(1) \o " 09:30:00", "Open", "Critical", None, Some("1")) }

\* The tables of at most n rows, in rowid order.
TicketTables(n) == UNION { [1..k -> TicketRows] : k \in 0..n }

\* Row i of table support_tickets: t.*, its id, subject and description.
TicketRow(db, i) ==
    LET r == db.support_tickets[i]
    IN  [id |-> i, customer_id |-> r.customer_id,
         subject |-> "Issue " \o ToString(i),
         description |-> "Details " \o ToString(i),
         status |-> r.status, priority |-> r.priority,
         created_date |-> r.created_date, resolved_date |-> r.resolved_date,
         contact_id |-> r.contact_id]

\* ------------------------------------------------- get_customer's query
\* SELECT c.*, s.plan, ... FROM customers c LEFT JOIN subscriptions s
\* WHERE c.id = ? ; fetchone(); dict(result) or None.
CustomerQuery(db, customer_id) ==
    IF customer_id \notin DOMAIN db.customers THEN None
    ELSE LET c == db.customers[customer_id]
             has == customer_id \in DOMAIN db.subscriptions
             s == db.subscriptions[customer_id]
         IN  Some([id |-> c.id, name |-> c.name, industry |-> c.industry,
                   size |-> c.size,
                   plan |-> IF has THEN Some(s.plan) ELSE None,
                   seats |-> IF has THEN Some(s.seats) ELSE None,
                   renewal_date |-> IF has THEN Some(s.renewal_date) ELSE None,
                   subscription_status |-> IF has THEN Some(s.status) ELSE None,
                   monthly_value |-> IF has THEN Some(s.monthly_value) ELSE None])

\* ------------------------------------------ get_support_tickets' query
\* A variant: the window the docstring documents, 30 days for "30days".
WindowDaysDocumented(timeframe) ==
    IF timeframe = "7days" THEN 7
    ELSE IF timeframe = "30days" THEN 30
    ELSE IF timeframe = "90days" THEN 90
    ELSE 180

\* The lookback window of a timeframe token, in days.
WindowDays(timeframe) ==
    IF timeframe = "7days" THEN 7
    ELSE IF timeframe = "90days" THEN 90
    ELSE 180

\* A variant: start_date keeps the time of day ("%Y-%m-%d %H:%M:%S").
StartDateWithTime(today, timeframe) ==
    Strftime(MinusDays(today, WindowDays(timeframe)))
    \o " " \o Pad2(today.hour) \o ":00:00"

\* start_date: the calendar date of today minus the window.
StartDate(today, timeframe) == Strftime(MinusDays(today, WindowDays(timeframe)))

\* A variant: the WHERE clause without the customer.
TicketMatchesAnyCustomer(row, customer_id, start_date) ==
    TextGE(row.created_date, start_date)

\* WHERE t.customer_id = ? AND t.created_date >= ?
TicketMatches(row, customer_id, start_date) ==
    /\ row.customer_id = customer_id
    /\ TextGE(row.created_date, start_date)

\* LEFT JOIN contacts c ON t.contact_id = c.id: contact_name, contact_title.
JoinContact(db, row) ==
    LET has == row.contact_id # None /\ row.contact_id[1] \in DOMAIN db.contacts
        c == db.contacts[row.contact_id[1]]
    IN  [id |-> row.id, customer_id |-> row.customer_id, subject |-> row.subject,
         description |-> row.description, status |-> row.status,
         priority |-> row.priority, created_date |-> row.created_date,
         resolved_date |-> row.resolved_date, contact_id |-> row.contact_id,
         contact_name |-> IF has THEN Some(c.name) ELSE None,
         contact_title |-> IF has THEN Some(c.title) ELSE None]

\* A variant: ORDER BY t.created_date ASC.
OrderedBeforeAscending(a, b) == ~TextGE(a.created_date, b.created_date)

\* Whether row a is listed before row b: ORDER BY t.created_date DESC.
OrderedBefore(a, b) == TextGE(a.created_date, b.created_date)

\* row put into the ordered list rows, after the rows that go before it: rows
\* of one created_date come out in the table's order, and the tables of Init
\* hold the rows in every order.
RECURSIVE InsertOrdered(_, _)
InsertOrdered(rows, row) ==
    IF rows = <<>> THEN <<row>>
    ELSE IF OrderedBefore(Head(rows), row)
         THEN <<Head(rows)>> \o InsertOrdered(Tail(rows), row)
         ELSE <<row>> \o rows

\* The matching rows of the first n rows of the table, joined and ordered.
RECURSIVE SelectTickets(_, _, _, _)
SelectTickets(db, customer_id, start_date, n) ==
    IF n = 0 THEN <<>>
    ELSE LET rest == SelectTickets(db, customer_id, start_date, n - 1)
             row == TicketRow(db, n)
         IN  IF TicketMatches(row, customer_id, start_date)
             THEN InsertOrdered(rest, JoinContact(db, row))
             ELSE rest

\* conn.execute(query, (customer_id, start_date)).fetchall() as dicts.
TicketQuery(db, customer_id, start_date) ==
    SelectTickets(db, customer_id, start_date, Len(db.support_tickets))

\* ------------------------------------------------ format_support_summary
\* The lower case of a status.
Lower(status) ==
    IF status = "Open" THEN "open"
    ELSE IF status = "Resolved" THEN "resolved"
    ELSE status

\* A variant: the statuses compared without regard to case.
RECURSIVE CountStatusIgnoringCase(_, _)
CountStatusIgnoringCase(tickets, status) ==
    IF tickets = <<>> THEN 0
    ELSE (IF Lower(Head(tickets).status) = Lower(status) THEN 1 ELSE 0)
         + CountStatusIgnoringCase(Tail(tickets), status)

\* The tickets whose status is exactly the given text.
RECURSIVE CountStatus(_, _)
CountStatus(tickets, status) ==
    IF tickets = <<>> THEN 0
    ELSE (IF Head(tickets).status = status THEN 1 ELSE 0)
         + CountStatus(Tail(tickets), status)

\* The tickets whose priority is "High" or "Critical".
RECURSIVE CountHighPriority(_)
CountHighPriority(tickets) ==
    IF tickets = <<>> THEN 0
    ELSE (IF Head(tickets).priority \in {"High", "Critical"} THEN 1 ELSE 0)
         + CountHighPriority(Tail(tickets))

\* The header and the CUSTOMER INFORMATION block.
CustomerBlock(customer, timeframe) ==
    "Support Summary for " \o customer.name \o " (" \o timeframe \o "):\n\n"
    \o "CUSTOMER INFORMATION:\n"
    \o "Industry: " \o customer.industry \o "\n"
    \o "Size: " \o customer.size \o "\n"
    \o "Subscription: " \o Str(customer.plan) \o " (" \o Str(customer.seats) \o " seats)\n"
    \o "Renewal Date: " \o Str(customer.renewal_date) \o "\n"
    \o "Subscription Status: " \o Str(customer.subscription_status) \o "\n\n"

\* The SUPPORT SUMMARY block: the four counts.
StatisticsBlock(tickets) ==
    "SUPPORT SUMMARY:\n"
    \o "- Total tickets: " \o ToString(Len(tickets)) \o "\n"
    \o "- Open tickets: " \o ToString(CountStatus(tickets, "Open")) \o "\n"
    \o "- Resolved tickets: " \o ToString(CountStatus(tickets, "Resolved")) \o "\n"
    \o "- High/Critical priority: " \o ToString(CountHighPriority(tickets)) \o "\n\n"

\* One ticket of the RECENT TICKETS block.
TicketEntry(ticket) ==
    LET resolved_text ==
            IF ticket.resolved_date # None /\ ticket.resolved_date[1] # ""
            THEN "Resolved: " \o ticket.resolved_date[1]
            ELSE "Still Open"
    IN  "- [" \o ticket.priority \o "] " \o ticket.subject
            \o " (" \o ticket.status \o ")\n"
        \o "  Created: " \o ticket.created_date \o " | " \o resolved_text \o "\n"
        \o "  Reported by: " \o Str(ticket.contact_name) \o ", "
            \o Str(ticket.contact_title) \o "\n"
        \o "  Description: " \o ticket.description \o "\n\n"

\* The loop over the tickets, in the order of the list.
RECURSIVE TicketEntries(_)
TicketEntries(tickets) ==
    IF tickets = <<>> THEN ""
    ELSE TicketEntry(Head(tickets)) \o TicketEntries(Tail(tickets))

\* A variant: no separate text for an empty list of tickets.
format_without_empty_check(customer, tickets, timeframe) ==
    IF customer = None THEN "Customer not found."
    ELSE CustomerBlock(customer[1], timeframe)
         \o StatisticsBlock(tickets)
         \o "RECENT TICKETS:\n"
         \o TicketEntries(tickets)

format_support_summary(customer, tickets, timeframe) ==
    IF customer = None THEN "Customer not found."
    ELSE IF tickets = <<>>
    THEN "No support tickets found for " \o customer[1].name
         \o " in the last " \o timeframe \o "."
    ELSE CustomerBlock(customer[1], timeframe)
         \o StatisticsBlock(tickets)
         \o "RECENT TICKETS:\n"
         \o TicketEntries(tickets)

\* ------------------------------------------------------------- state
VARIABLES
    db,             \* the data store: its four tables
    clock,          \* the wall clock, a datetime
    ticks,          \* steps the clock has taken
    open_conns,     \* the connections that are open
    pc,             \* where each invocation is
    customer_id,    \* generate_support_summary's arguments
    timeframe,
    conn,           \* the connection the running retrieval holds, or None
    n_conns,        \* connections the invocation has acquired
    n_ticket_calls, \* calls of get_support_tickets the invocation has made
    customer,       \* get_customer's return value
    today,          \* get_support_tickets' today, or None
    start_date,     \* get_support_tickets' start_date, or None
    tickets,        \* get_support_tickets' return value
    exc,            \* the exception in flight or caught, or None
    n_caught,       \* times the invocation's except clause has run
    result          \* the returned text, or None

vars == <<db, clock, ticks, open_conns, pc, customer_id, timeframe, conn, n_conns,
          n_ticket_calls, customer, today, start_date, tickets, exc, n_caught,
          result>>

locals == <<customer_id, timeframe, conn, n_conns, n_ticket_calls, customer, today,
            start_date, tickets, exc, n_caught, result>>

\* str(e) of the failures of the data store: sqlite3.connect's and execute's.
ConnectError == "unable to open database file"

QueryError == "database is locked"

\* str(e) of sqlite3's error for a statement on a closed connection.
ClosedError == "Cannot operate on a closed database."

\* ------------------------------------------------------ initial states
Idle ==
    /\ pc = [p \in Procs |-> "idle"]
    /\ customer_id = [p \in Procs |-> None]
    /\ timeframe = [p \in Procs |-> None]
    /\ conn = [p \in Procs |-> None]
    /\ n_conns = [p \in Procs |-> 0]
    /\ n_ticket_calls = [p \in Procs |-> 0]
    /\ customer = [p \in Procs |-> None]
    /\ today = [p \in Procs |-> None]
    /\ start_date = [p \in Procs |-> None]
    /\ tickets = [p \in Procs |-> <<>>]
    /\ exc = [p \in Procs |-> None]
    /\ n_caught = [p \in Procs |-> 0]
    /\ result = [p \in Procs |-> None]
    /\ open_conns = {}
    /\ clock = [day |-> StartDay, hour |-> 14]
    /\ ticks = 0

Database(table) ==
    [customers |-> CustomersTable, subscriptions |-> SubscriptionsTable,
     contacts |-> ContactsTable, support_tickets |-> table]

\* Any store of at most MaxTickets tickets.
Init == Idle /\ \E table \in TicketTables(MaxTickets) : db = Database(table)

\* ------------------------------------------------- get_db_connection
\* A variant: one connection of the module, shared by every call.
shared_db_connection(p) == [owner |-> "module", serial |-> 0]

\* sqlite3.connect(DB_PATH): a connection of its own for each call.
get_db_connection(p) == [owner |-> p, serial |-> n_conns[p] + 1]

\* conn = get_db_connection(), at the head of a retrieval function.
Connect(p, from, to) ==
    /\ pc[p] = from
    /\ conn' = [conn EXCEPT ![p] = Some(get_db_connection(p))]
    /\ open_conns' = open_conns \cup {get_db_connection(p)}
    /\ n_conns' = [n_conns EXCEPT ![p] = @ + 1]
    /\ pc' = [pc EXCEPT ![p] = to]
    /\ UNCHANGED <<db, clock, ticks, customer_id, timeframe, n_ticket_calls,
                   customer, today, start_date, tickets, exc, n_caught, result>>

\* sqlite3.connect raises: the retrieval function is left before its try.
ConnectFails(p, from) ==
    /\ pc[p] = from
    /\ exc' = [exc EXCEPT ![p] = Some(ConnectError)]
    /\ pc' = [pc EXCEPT ![p] = "except"]
    /\ UNCHANGED <<db, clock, ticks, open_conns, customer_id, timeframe, conn,
                   n_conns, n_ticket_calls, customer, today, start_date, tickets,
                   n_caught, result>>

\* A variant: conn.close() after the query, not in a finally clause.
CloseUnlessRaised(p, from, to) ==
    /\ pc[p] = from
    /\ open_conns' = IF exc[p] # None THEN open_conns ELSE open_conns \ {conn[p][1]}
    /\ conn' = [conn EXCEPT ![p] = IF exc[p] # None THEN @ ELSE None]
    /\ pc' = [pc EXCEPT ![p] = IF exc[p] # None THEN "except" ELSE to]
    /\ UNCHANGED <<db, clock, ticks, customer_id, timeframe, n_conns,
                   n_ticket_calls, customer, today, start_date, tickets, exc,
                   n_caught, result>>

\* finally: conn.close(); then the return, or the exception goes on.
Close(p, from, to) ==
    /\ pc[p] = from
    /\ open_conns' = open_conns \ {conn[p][1]}
    /\ conn' = [conn EXCEPT ![p] = None]
    /\ pc' = [pc EXCEPT ![p] = IF exc[p] # None THEN "except" ELSE to]
    /\ UNCHANGED <<db, clock, ticks, customer_id, timeframe, n_conns,
                   n_ticket_calls, customer, today, start_date, tickets, exc,
                   n_caught, result>>

\* ------------------------------------------------ generate_support_summary
\* The tool is called with its two arguments.
Call(p, cid, tf) ==
    /\ pc[p] = "idle"
    /\ customer_id' = [customer_id EXCEPT ![p] = Some(cid)]
    /\ timeframe' = [timeframe EXCEPT ![p] = Some(tf)]
    /\ pc' = [pc EXCEPT ![p] = "get_customer"]
    /\ UNCHANGED <<db, clock, ticks, open_conns, conn, n_conns, n_ticket_calls,
                   customer, today, start_date, tickets, exc, n_caught, result>>

CustomerConnect(p) == Connect(p, "get_customer", "customer_execute")

CustomerConnectFails(p) == ConnectFails(p, "get_customer")

\* conn.execute(query, (customer_id,)).fetchone()
CustomerExecute(p) ==
    /\ pc[p] = "customer_execute"
    /\ IF conn[p][1] \in open_conns
       THEN /\ customer' = [customer EXCEPT ![p] = CustomerQuery(db, customer_id[p][1])]
            /\ exc' = exc
       ELSE /\ exc' = [exc EXCEPT ![p] = Some(ClosedError)]
            /\ customer' = customer
    /\ pc' = [pc EXCEPT ![p] = "customer_close"]
    /\ UNCHANGED <<db, clock, ticks, open_conns, customer_id, timeframe, conn,
                   n_conns, n_ticket_calls, today, start_date, tickets, n_caught,
                   result>>

\* The data store fails the customer query.
CustomerExecuteFails(p) ==
    /\ pc[p] = "customer_execute"
    /\ exc' = [exc EXCEPT ![p] = Some(QueryError)]
    /\ pc' = [pc EXCEPT ![p] = "customer_close"]
    /\ UNCHANGED <<db, clock, ticks, open_conns, customer_id, timeframe, conn,
                   n_conns, n_ticket_calls, customer, today, start_date, tickets,
                   n_caught, result>>

CustomerClose(p) == Close(p, "customer_close", "check_customer")

\* The text returned for a customer that was not found.
NotFoundText(cid) == "Error: Customer with ID " \o cid \o " not found."

\* A variant: no check of the customer before step 2.
CheckCustomerSkipped(p) ==
    /\ pc[p] = "check_customer"
    /\ n_ticket_calls' = [n_ticket_calls EXCEPT ![p] = @ + 1]
    /\ pc' = [pc EXCEPT ![p] = "get_support_tickets"]
    /\ UNCHANGED <<db, clock, ticks, open_conns, customer_id, timeframe, conn,
                   n_conns, customer, today, start_date, tickets, exc, n_caught,
                   result>>

\* if not customer: return ...; else step 2 calls get_support_tickets.
CheckCustomer(p) ==
    /\ pc[p] = "check_customer"
    /\ IF customer[p] = None
       THEN /\ result' = [result EXCEPT ![p] = Some(NotFoundText(customer_id[p][1]))]
            /\ pc' = [pc EXCEPT ![p] = "done"]
            /\ n_ticket_calls' = n_ticket_calls
       ELSE /\ n_ticket_calls' = [n_ticket_calls EXCEPT ![p] = @ + 1]
            /\ pc' = [pc EXCEPT ![p] = "get_support_tickets"]
            /\ result' = result
    /\ UNCHANGED <<db, clock, ticks, open_conns, customer_id, timeframe, conn,
                   n_conns, customer, today, start_date, tickets, exc, n_caught>>

TicketsConnect(p) == Connect(p, "get_support_tickets", "tickets_execute")

TicketsConnectFails(p) == ConnectFails(p, "get_support_tickets")

\* today = datetime.now(); start_date; conn.execute(...).fetchall()
TicketsExecute(p) ==
    /\ pc[p] = "tickets_execute"
    /\ today' = [today EXCEPT ![p] = Some(clock)]
    /\ start_date' = [start_date EXCEPT ![p] = Some(StartDate(clock, timeframe[p][1]))]
    /\ IF conn[p][1] \in open_conns
       THEN /\ tickets' = [tickets EXCEPT ![p] =
                    TicketQuery(db, customer_id[p][1], start_date'[p][1])]
            /\ exc' = exc
       ELSE /\ exc' = [exc EXCEPT ![p] = Some(ClosedError)]
            /\ tickets' = tickets
    /\ pc' = [pc EXCEPT ![p] = "tickets_close"]
    /\ UNCHANGED <<db, clock, ticks, open_conns, customer_id, timeframe, conn,
                   n_conns, n_ticket_calls, customer, n_caught, result>>

\* The data store fails the ticket query.
TicketsExecuteFails(p) ==
    /\ pc[p] = "tickets_execute"
    /\ today' = [today EXCEPT ![p] = Some(clock)]
    /\ start_date' = [start_date EXCEPT ![p] = Some(StartDate(clock, timeframe[p][1]))]
    /\ exc' = [exc EXCEPT ![p] = Some(QueryError)]
    /\ pc' = [pc EXCEPT ![p] = "tickets_close"]
    /\ UNCHANGED <<db, clock, ticks, open_conns, customer_id, timeframe, conn,
                   n_conns, n_ticket_calls, customer, tickets, n_caught, result>>

TicketsClose(p) == Close(p, "tickets_close", "format")

\* Step 3: return format_support_summary(customer, tickets, timeframe)
Format(p) ==
    /\ pc[p] = "format"
    /\ result' = [result EXCEPT ![p] =
            Some(format_support_summary(customer[p], tickets[p], timeframe[p][1]))]
    /\ pc' = [pc EXCEPT ![p] = "done"]
    /\ UNCHANGED <<db, clock, ticks, open_conns, customer_id, timeframe, conn,
                   n_conns, n_ticket_calls, customer, today, start_date, tickets,
                   exc, n_caught>>

\* The text returned for a caught exception.
ErrorText(e) == "Error generating support summary: " \o e

\* A variant: the except clause raises the exception again.
ExceptRaisesAgain(p) ==
    /\ pc[p] = "except"
    /\ n_caught' = [n_caught EXCEPT ![p] = @ + 1]
    /\ pc' = [pc EXCEPT ![p] = "done"]
    /\ UNCHANGED <<db, clock, ticks, open_conns, customer_id, timeframe, conn,
                   n_conns, n_ticket_calls, customer, today, start_date, tickets,
                   exc, result>>

\* except Exception as e: return f"Error generating support summary: {str(e)}"
Except(p) ==
    /\ pc[p] = "except"
    /\ result' = [result EXCEPT ![p] = Some(ErrorText(exc[p][1]))]
    /\ n_caught' = [n_caught EXCEPT ![p] = @ + 1]
    /\ pc' = [pc EXCEPT ![p] = "done"]
    /\ UNCHANGED <<db, clock, ticks, open_conns, customer_id, timeframe, conn,
                   n_conns, n_ticket_calls, customer, today, start_date, tickets,
                   exc>>

\* Half a day passes.
Tick ==
    /\ ticks < MaxTicks
    /\ ticks' = ticks + 1
    /\ clock' = IF clock.hour + 12 >= 24
                THEN [day |-> clock.day + 1, hour |-> clock.hour + 12 - 24]
                ELSE [day |-> clock.day, hour |-> clock.hour + 12]
    /\ UNCHANGED <<db, open_conns, pc>>
    /\ UNCHANGED locals

\* A step of invocation p after its call.
Step(p) ==
    \/ CustomerConnect(p)
    \/ CustomerConnectFails(p)
    \/ CustomerExecute(p)
    \/ CustomerExecuteFails(p)
    \/ CustomerClose(p)
    \/ CheckCustomer(p)
    \/ TicketsConnect(p)
    \/ TicketsConnectFails(p)
    \/ TicketsExecute(p)
    \/ TicketsExecuteFails(p)
    \/ TicketsClose(p)
    \/ Format(p)
    \/ Except(p)

\* One invocation, with any arguments.
Next ==
    \/ \E cid \in CustomerIds, tf \in Timeframes : Call("p1", cid, tf)
    \/ Step("p1")
    \/ Tick

Spec == Init /\ [][Next]_vars

\* ---------------------------------------------- concurrent invocations
\* Two stores: an open critical ticket of yesterday with a resolved low one of
\* forty days ago; and a ticket created seven days ago with one created on the
\* morning of the day after.
ScenarioTables ==
    { << Ticket("ACM001", DaysAgo(1) \o " 09:30:00", "Open", "Critical", None, Some("1")),
         Ticket("ACM001", DaysAgo(40), "Resolved", "Low", Some(DaysAgo(38)), None) >>,
      << Ticket("ACM001", DaysAgo(7), "open", "High", None, Some("1")),
         Ticket("ACM001", DaysAgo(6) \o " 09:30:00", "Open", "High", None, None) >> }

InitConcurrent == Idle /\ \E table \in ScenarioTables : db = Database(table)

\* Every invocation of Procs, its steps interleaved with the others'.
NextConcurrent ==
    \/ \E p \in Procs, cid \in {"ACM001", "ZZZ999"}, tf \in {"7days", "30days"} :
            Call(p, cid, tf)
    \/ \E p \in Procs : Step(p)
    \/ Tick

SpecConcurrent == InitConcurrent /\ [][NextConcurrent]_vars

\* ------------------------------------------------- reading the results
\* The instant of a datetime, in minutes.
Instant(dt) == (dt.day * 24 + dt.hour) * 60

\* The number a text of digits writes.
RECURSIVE Number(_)
Number(s) ==
    IF Len(s) = 0 THEN 0
    ELSE Number(SubSeq(s, 1, Len(s) - 1)) * 10
         + (CharCode(SubSeq(s, Len(s), Len(s))) - 3)

\* The days of a year before its month m.
RECURSIVE DaysBefore(_)
DaysBefore(m) == IF m = 1 THEN 0 ELSE DaysBefore(m - 1) + MonthLens[m - 1]

\* The day a stored "YYYY-MM-DD" or "YYYY-MM-DD HH:MM:SS" falls on.
CreatedDay(text) ==
    (Number(SubSeq(text, 1, 4)) - 2025) * 365
    + DaysBefore(Number(SubSeq(text, 6, 7)))
    + Number(SubSeq(text, 9, 10)) - 1

\* Its instant, in minutes; a date alone is that day's midnight.
CreatedInstant(text) ==
    CreatedDay(text) * 24 * 60
    + (IF Len(text) > 10
       THEN Number(SubSeq(text, 12, 13)) * 60 + Number(SubSeq(text, 15, 16))
       ELSE 0)

\* The places where sub occurs in s.
Occurrences(s, sub) ==
    { k \in 1..(Len(s) - Len(sub) + 1) : SubSeq(s, k, k + Len(sub) - 1) = sub }

\* The invocation has returned.
Returned(p) == pc[p] = "done"

\* The rowids of the tickets in a list.
TicketIds(list) == { list[i].id : i \in 1..Len(list) }

\* The days of the window the claims give each token.
ClaimedWindow(tf) == CASE tf = "7days" -> 7 [] tf = "90days" -> 90 [] OTHER -> 180

C2_ErrorColonPrefix ==
    \A p \in Procs :
        (Returned(p) /\ (exc[p] # None \/ customer[p] = None))
        => /\ result[p] # None
           /\ StartsWith(result[p][1], "Error:")
           /\ n_caught[p] = (IF exc[p] # None THEN 1 ELSE 0)

\* C2, amended: a failure raised inside the invocation is caught exactly once
\* and never leaves it: the invocation returns the text
\* "Error generating support summary: " followed by the failure's text, which
\* starts with "Error" but not with "Error:"; only the text for a customer
\* not found starts with "Error:".
C2_FailureCaughtOnce ==
    \A p \in Procs :
        /\ n_caught[p] <= 1
        /\ (exc[p] # None) => pc[p] \in {"customer_close", "tickets_close", "except", "done"}
        /\ Returned(p) => result[p] # None
        /\ (Returned(p) /\ exc[p] # None)
           => /\ n_caught[p] = 1
              /\ result[p][1] = "Error generating support summary: " \o exc[p][1]
              /\ StartsWith(result[p][1], "Error")
              /\ ~StartsWith(result[p][1], "Error:")
        /\ (Returned(p) /\ exc[p] = None /\ customer[p] = None)
           => (n_caught[p] = 0 /\ StartsWith(result[p][1], "Error:"))

\* A ticket query has failed and the invocation has returned its text.
C2_Witness ==
    \E p \in Procs :
        /\ Returned(p) /\ n_ticket_calls[p] = 1 /\ n_conns[p] = 2
        /\ exc[p] = Some(QueryError)
        /\ result[p] = Some("Error generating support summary: database is locked")

StoredTickets(cid, Keep(_)) ==
    { i \in 1..Len(db.support_tickets) :
        /\ db.support_tickets[i].customer_id = cid
        /\ Keep(db.support_tickets[i].created_date) }

\* C4, as stated: get_support_tickets returns exactly the tickets of the
\* customer whose created timestamp is at or after now minus the window's N
\* days, each once.
C4_CutoffIsInstant ==
    \A p \in Procs :
        (pc[p] = "tickets_close" /\ exc[p] = None)
        => LET cutoff == Instant(today[p][1])
                         - ClaimedWindow(timeframe[p][1]) * 24 * 60
               Keep(created) == CreatedInstant(created) >= cutoff
           IN  /\ TicketIds(tickets[p]) = StoredTickets(customer_id[p][1], Keep)
               /\ Len(tickets[p]) = Cardinality(TicketIds(tickets[p]))

\* C4, amended: get_support_tickets returns exactly the tickets of the
\* customer created on or after the calendar day of now minus the window's N
\* days, at any time of that day, each once: none of another customer, none
\* of an earlier day, none of those left out.
C4_CutoffIsDate ==
    \A p \in Procs :
        (pc[p] = "tickets_close" /\ exc[p] = None)
        => LET cutoff == today[p][1].day - ClaimedWindow(timeframe[p][1])
               Keep(created) == CreatedDay(created) >= cutoff
           IN  /\ TicketIds(tickets[p]) = StoredTickets(customer_id[p][1], Keep)
               /\ Len(tickets[p]) = Cardinality(TicketIds(tickets[p]))

\* With "7days", of a ticket of yesterday and one of forty days ago, the first
\* alone has been retrieved.
C4_Witness ==
    \E p \in Procs :
        /\ pc[p] = "tickets_close" /\ exc[p] = None
        /\ timeframe[p] = Some("7days")
        /\ Len(db.support_tickets) = 2
        /\ \A i \in 1..2 : db.support_tickets[i].customer_id = customer_id[p][1]
        /\ \E i \in 1..2 :
              CreatedDay(db.support_tickets[i].created_date) = today[p][1].day - 40
        /\ Len(tickets[p]) = 1
        /\ CreatedDay(tickets[p][1].created_date) = today[p][1].day - 1

\* C5: for a customer that exists and an empty retrieved list, the invocation
\* returns exactly 'No support tickets found for {name} in the last
\* {timeframe}.', with the caller's token as given, and no block of a report.
C5_NoTickets ==
    \A p \in Procs :
        (Returned(p) /\ exc[p] = None /\ customer[p] # None /\ tickets[p] = <<>>)
        => /\ result[p] = Some("No support tickets found for "
                               \o db.customers[customer_id[p][1]].name
                               \o " in the last " \o timeframe[p][1] \o ".")
           /\ Occurrences(result[p][1], "CUSTOMER INFORMATION:") = {}
           /\ Occurrences(result[p][1], "SUPPORT SUMMARY:") = {}
           /\ Occurrences(result[p][1], "RECENT TICKETS:") = {}

\* A customer with no ticket has got the one-line text with the token
\* "30days" as given, the window applied being of 180 days.
C5_Witness ==
    \E p \in Procs :
        /\ Returned(p) /\ n_ticket_calls[p] = 1 /\ today[p] # None
        /\ start_date[p] = Some(Strftime(MinusDays(today[p][1], 180)))
        /\ result[p] = Some("No support tickets found for Galaxy Inc in the last 30days.")

\* The tickets of a list whose status is exactly the text.
WithStatus(list, status) == { i \in 1..Len(list) : list[i].status = status }

\* C6: a report for a list that is not empty gives as total the length of the
\* list, as open and resolved counts the numbers of tickets whose status is
\* exactly "Open" and "Resolved", and open + resolved <= total.
C6_Counts ==
    \A p \in Procs :
        (Returned(p) /\ exc[p] = None /\ customer[p] # None /\ tickets[p] # <<>>)
        => LET total == Len(tickets[p])
               open == Cardinality(WithStatus(tickets[p], "Open"))
               resolved == Cardinality(WithStatus(tickets[p], "Resolved"))
           IN  /\ Cardinality(Occurrences(result[p][1],
                    "SUPPORT SUMMARY:\n"
                    \o "- Total tickets: " \o ToString(total) \o "\n"
                    \o "- Open tickets: " \o ToString(open) \o "\n"
                    \o "- Resolved tickets: " \o ToString(resolved) \o "\n")) = 1
               /\ open + resolved <= total

\* A report lists a ticket whose status is "open" in lower case, which is in
\* neither count.
C6_Witness ==
    \E p \in Procs :
        /\ Returned(p) /\ exc[p] = None /\ Len(tickets[p]) = 2
        /\ WithStatus(tickets[p], "open") # {}
        /\ WithStatus(tickets[p], "Open") # {}
        /\ Occurrences(result[p][1], "- Total tickets: 2\n- Open tickets: 1\n- Resolved tickets: 0\n") # {}
        /\ Occurrences(result[p][1], "(open)\n") # {}

\* The place in a report of the entry of the ticket with rowid i.
EntryPlaces(text, i) == Occurrences(text, "] Issue " \o ToString(i) \o " (")

\* C7: the RECENT TICKETS block of a report lists every retrieved ticket
\* exactly once, and no other, each listed ticket created at or after the one
\* listed next.
C7_ListedOnceNewestFirst ==
    \A p \in Procs :
        (Returned(p) /\ exc[p] = None /\ customer[p] # None /\ tickets[p] # <<>>)
        => LET text == result[p][1]
               block == CHOOSE k \in Occurrences(text, "RECENT TICKETS:\n") : TRUE
               created(i) == CreatedInstant(db.support_tickets[i].created_date)
               rows == 1..Len(db.support_tickets)
           IN  /\ Cardinality(Occurrences(text, "RECENT TICKETS:\n")) = 1
               /\ \A i \in rows :
                     /\ Cardinality(EntryPlaces(text, i))
                           = (IF i \in TicketIds(tickets[p]) THEN 1 ELSE 0)
                     /\ \A k \in EntryPlaces(text, i) : k > block
               /\ \A i, j \in TicketIds(tickets[p]) :
                     (\E k \in EntryPlaces(text, i), l \in EntryPlaces(text, j) : k < l)
                     => created(i) >= created(j)

\* A report lists two tickets of different days.
C7_Witness ==
    \E p \in Procs :
        /\ Returned(p) /\ exc[p] = None /\ Len(tickets[p]) = 2
        /\ CreatedDay(tickets[p][1].created_date) > CreatedDay(tickets[p][2].created_date)
        /\ tickets[p][1].id > tickets[p][2].id
        /\ Occurrences(result[p][1], "RECENT TICKETS:\n") # {}

\* The connections invocation p has opened and not closed.
Held(p) == { c \in open_conns : c.owner = p }

\* C9: an invocation holds at most one open connection at any moment, none
\* when it returns (whether its queries succeeded, found no row or raised) and
\* none between get_customer's return and get_support_tickets' connection.
C9_ConnectionsClosed ==
    \A p \in Procs :
        /\ Cardinality(Held(p)) <= 1
        /\ pc[p] \in {"done", "except", "check_customer", "get_support_tickets",
                      "format", "idle", "get_customer"}
           => Held(p) = {}
        /\ Held(p) # {} => conn[p] = Some(CHOOSE c \in Held(p) : TRUE)

\* An invocation whose ticket query raised has returned, having opened two
\* connections.
C9_Witness ==
    \E p \in Procs :
        /\ Returned(p) /\ n_conns[p] = 2 /\ exc[p] = Some(QueryError)
        /\ Held(p) = {}

\* Invocations p and q were called with the same arguments and have returned.
SameCall(p, q) ==
    /\ p # q /\ Returned(p) /\ Returned(q)
    /\ customer_id[p] = customer_id[q] /\ timeframe[p] = timeframe[q]

\* C8, as stated: two calls with the same customer id and token against the
\* unchanged store return the same text, whatever time passes between them
\* (here: two calls that both met no failure of the store).
C8_SameOutputAnyTime ==
    \A p, q \in Procs :
        (SameCall(p, q) /\ exc[p] = None /\ exc[q] = None)
        => result[p] = result[q]

\* C8, amended: two calls with the same customer id and token against the
\* unchanged store, neither meeting a failure of the store, return the same
\* text when their ticket queries run on the same calendar day.
C8_SameOutputSameDay ==
    \A p, q \in Procs :
        (SameCall(p, q) /\ exc[p] = None /\ exc[q] = None
            /\ (today[p] # None /\ today[q] # None
                => today[p][1].day = today[q][1].day))
        => result[p] = result[q]

\* Two calls with the same arguments have queried the tickets at different
\* hours of one day and returned a report.
C8_Witness ==
    \E p, q \in Procs :
        /\ SameCall(p, q) /\ exc[p] = None /\ exc[q] = None
        /\ today[p] # None /\ today[q] # None
        /\ today[p][1].day = today[q][1].day
        /\ today[p][1].hour # today[q][1].hour
        /\ tickets[p] # <<>>

\* generate_support_summary run alone: what it returns for its arguments when
\* the store does not fail and its ticket query reads the clock as now.
RunAlone(cid, tf, now) ==
    LET c == CustomerQuery(db, cid)
    IN  IF c = None THEN "Error: Customer with ID " \o cid \o " not found."
        ELSE format_support_summary(c, TicketQuery(db, cid, StartDate(now[1], tf)), tf)

\* No invocation that has work left waits: its next step can be taken.
NoWaiting == \A p \in Procs : pc[p] \notin {"idle", "done"} => ENABLED Step(p)

\* A returned invocation has the result of a run alone: the text for a
\* failure of the store it met itself, or else the text of RunAlone.
ResultOfRunAlone ==
    \A p \in Procs :
        Returned(p)
        => \/ /\ exc[p] \in {Some(ConnectError), Some(QueryError)}
              /\ result[p] = Some("Error generating support summary: " \o exc[p][1])
           \/ /\ exc[p] = None
              /\ result[p] = Some(RunAlone(customer_id[p][1], timeframe[p][1], today[p]))

\* C10: with the steps of several invocations interleaved, no invocation
\* waits on another, none changes the store, and each returns the result it
\* would return if run alone.
C10_Independent == [](NoWaiting /\ ResultOfRunAlone) /\ [][db' = db]_vars

\* One invocation has returned a report while another, whose ticket query
\* read the same clock, still holds its connection.
C10_Witness ==
    \E p, q \in Procs :
        /\ p # q /\ Returned(p) /\ exc[p] = None /\ tickets[p] # <<>>
        /\ pc[q] = "tickets_close" /\ conn[q] # None /\ conn[q][1] \in open_conns
        /\ today[q] = today[p]

====
